---- MODULE Spec2Model ----
(***************************************************************************)
(* A model of cle.py: the per-object ELF loader (class Elf), the segment   *)
(* descriptor (class Segment) and the linker/relocator (class Ld).         *)
(*                                                                         *)
(* Ld.__init__ runs three stages (load the main object, load and rebase    *)
(* the shared objects, patch the jump-relocation slots); afterwards the    *)
(* composed image is queried and GOT slots are overridden.                 *)
(*                                                                         *)
(* Values of a memory cell: a byte read from a file is a negative number   *)
(* (distinct per file and file offset), a BSS cell is 0 and a relocated    *)
(* GOT word is the resolved address, so a byte is never equal to a word.   *)
(***************************************************************************)
EXTENDS Integers, Sequences, FiniteSets, TLC

VARIABLES
    main_bin,        \* Ld.main_bin: the Elf object of the main binary
    fs,              \* the shared-object files: soname -> status and content
    libs,            \* the mapping returned by Ld.ld_so_addr: soname -> base
    memory,          \* Ld.memory: the composed image
    shared_objects,  \* Ld.shared_objects: the loaded dependencies, in order
    pc,              \* position inside Ld.__init__, "done" once it returned
    error,           \* the exception that ended Ld.__init__, or "none"
    ret              \* the last call of override_got_entry and its outcome

vars == <<main_bin, fs, libs, memory, shared_objects, pc, error, ret>>

----------------------------------------------------------------------------
(* Bounds of the model *)

\* shared objects are based at k * Span, k in 0..MaxSlot
MaxSlot == 2
\* bytes of a text segment
TextSize == 2
\* bytes of BSS of a data segment (memsz - filesz)
BssSize == 1

----------------------------------------------------------------------------
(* The inputs: binaries as the extractor describes them *)

Names == {"puts", "weird"}
LibNames == {"libA.so", "libB.so"}
MainName == "main"

\* the file part of the data segment holds one GOT slot per name
GotSize == Cardinality(Names)
Span == TextSize + GotSize + BssSize
Bases == {k * Span : k \in 0..MaxSlot}
MainVaddrs == {0, Span}
MaxAddr == Span * (MaxSlot + 2)
NewAddrs == {0, MaxAddr}

Min(S) == CHOOSE x \in S : \A y \in S : x <= y

EmptyMap == [a \in {} |-> 0]

FileIndex(binary) ==
    IF binary = MainName THEN 0 ELSE IF binary = "libA.so" THEN 1 ELSE 2

\* the byte at offset off of the file: distinct per file and offset
FileByte(binary, off) == 0 - (FileIndex(binary) * Span + off + 1)

\* the program header table of a binary linked at vaddr v: a dynamic entry,
\* the text entry (filesz = memsz) and the data entry (filesz < memsz)
Phdr(v) ==
    << [offset |-> TextSize, vaddr |-> v + TextSize, filesz |-> GotSize,
        memsz |-> GotSize, type |-> "PT_DYNAMIC"],
       [offset |-> 0, vaddr |-> v, filesz |-> TextSize,
        memsz |-> TextSize, type |-> "PT_LOAD"],
       [offset |-> TextSize, vaddr |-> v + TextSize, filesz |-> GotSize,
        memsz |-> GotSize + BssSize, type |-> "PT_LOAD"] >>

SymImport == [addr |-> 0, binding |-> "STB_GLOBAL", type |-> "SHN_UNDEF"]
SymGlobal(v) == [addr |-> v + 1, binding |-> "STB_GLOBAL", type |-> "1"]
SymLocal(v) == [addr |-> v + 1, binding |-> "STB_LOCAL", type |-> "1"]

\* jump-relocation tables: the GOT slots are the first cells of the data
\* segment, one slot per entry
Jmprels(v) ==
    { [n \in {"puts"} |-> v + TextSize],
      [n \in {"weird"} |-> v + TextSize],
      [n \in Names |-> IF n = "puts" THEN v + TextSize
                                     ELSE v + TextSize + 1] }

Info(binary, v, symbols, jmprel) ==
    [binary |-> binary, phdr |-> Phdr(v), symbols |-> symbols,
     jmprel |-> jmprel]

MainInfos ==
    UNION { { Info(MainName, v,
                   [n \in Names |-> IF n = "puts" THEN p ELSE SymImport], j) :
                p \in {SymImport, SymGlobal(v)}, j \in Jmprels(v) } :
            v \in MainVaddrs }

\* a shared object is linked at 0; it may have no jump relocation
LibInfos(soname) ==
    { Info(soname, 0, [n \in Names |-> IF n = "puts" THEN p ELSE SymLocal(0)],
           j) :
        p \in {SymImport, SymGlobal(0), SymLocal(0)},
        j \in {EmptyMap, [n \in {"puts"} |-> TextSize]} }

DefaultInfo(soname) ==
    Info(soname, 0, [n \in Names |-> SymLocal(0)], EmptyMap)

\* what the resolver and the filesystem say about one soname: not in the
\* mapping, in the mapping and loadable at a base, or in the mapping while
\* no file of that name exists (the fallback search may or may not find one)
LibConfigs(soname) ==
    { [listed |-> FALSE, status |-> "exists", base |-> 0,
       info |-> DefaultInfo(soname)] }
    \cup { [listed |-> TRUE, status |-> "exists", base |-> b, info |-> i] :
             b \in Bases, i \in LibInfos(soname) }

MissingConfigs(soname) ==
    { [listed |-> TRUE, status |-> s, base |-> b,
       info |-> DefaultInfo(soname)] :
        s \in {"searchable", "absent"}, b \in {Span} }

----------------------------------------------------------------------------
(* class Segment *)

Segment(name, vaddr, size) == [name |-> name, vaddr |-> vaddr, size |-> size]

contains_addr(seg, addr) ==
    (addr > seg.vaddr) /\ (addr < seg.vaddr + seg.size)

----------------------------------------------------------------------------
(* class Elf *)

get_text_phdr_ent(phdr) ==
    phdr[Min({i \in 1..Len(phdr) :
                phdr[i].type = "PT_LOAD" /\ phdr[i].filesz = phdr[i].memsz})]

get_data_phdr_ent(phdr) ==
    phdr[Min({i \in 1..Len(phdr) :
                phdr[i].type = "PT_LOAD" /\ phdr[i].filesz # phdr[i].memsz})]

\* load_segment: the cells vaddr .. vaddr+size-1 take the bytes of the file
\* from offset on (the inputs have no two segments that overlap, so the
\* exception of line 446 is not raised)
load_segment(mem, binary, offset, size, vaddr) ==
    [a \in DOMAIN mem \cup (vaddr .. (vaddr + size - 1)) |->
        IF a \in vaddr .. (vaddr + size - 1)
        THEN FileByte(binary, offset + (a - vaddr))
        ELSE mem[a]]

load_bss(mem, data_hdr) ==
    LET size == data_hdr.memsz - data_hdr.filesz
        off == data_hdr.vaddr + data_hdr.filesz
    IN [a \in DOMAIN mem \cup (off .. (off + size - 1)) |->
           IF a \in off .. (off + size - 1) THEN 0 ELSE mem[a]]

\* Elf.load: text, data, then BSS
load(binary, phdr) ==
    LET text == get_text_phdr_ent(phdr)
        data == get_data_phdr_ent(phdr)
        m1 == load_segment(EmptyMap, binary, text.offset, text.filesz,
                           text.vaddr)
        m2 == load_segment(m1, binary, data.offset, data.filesz, data.vaddr)
    IN load_bss(m2, data)

\* the segment list Elf.load leaves: load_segment is called with filesz
segments_of(phdr) ==
    LET text == get_text_phdr_ent(phdr)
        data == get_data_phdr_ent(phdr)
    IN << Segment("text", text.vaddr, text.filesz),
          Segment("data", data.vaddr, data.filesz) >>

\* Elf.__init__
Elf(info) ==
    [binary |-> info.binary, phdr |-> info.phdr, symbols |-> info.symbols,
     jmprel |-> info.jmprel, rebase_addr |-> 0,
     memory |-> load(info.binary, info.phdr),
     segments |-> segments_of(info.phdr)]

get_exec_base_addr(obj) ==
    LET t == get_text_phdr_ent(obj.phdr)
        d == get_data_phdr_ent(obj.phdr)
    IN IF t.vaddr > d.vaddr THEN d.vaddr ELSE t.vaddr

get_max_addr(obj) ==
    LET text == get_text_phdr_ent(obj.phdr)
        data == get_data_phdr_ent(obj.phdr)
        m1 == text.vaddr + text.memsz + obj.rebase_addr
        m2 == data.vaddr + data.memsz + obj.rebase_addr
    IN IF m1 > m2 THEN m1 ELSE m2

get_imports(obj) ==
    [n \in {x \in DOMAIN obj.symbols : obj.symbols[x].type = "SHN_UNDEF"} |->
        obj.symbols[n].addr]

get_exports(obj) ==
    [n \in {x \in DOMAIN obj.symbols :
              obj.symbols[x].binding = "STB_GLOBAL"} |->
        obj.symbols[n].addr]

\* the name of the first segment that contains vaddr, "None" if there is none
in_which_segment(obj, vaddr) ==
    LET hits == {i \in 1..Len(obj.segments) :
                   contains_addr(obj.segments[i], vaddr)}
    IN IF hits = {} THEN "None" ELSE obj.segments[Min(hits)].name

----------------------------------------------------------------------------
(* class Ld *)

\* the orders in which the entries of a mapping may be iterated
Orders(S) ==
    {o \in [1..Cardinality(S) -> S] : \A x \in S : \E i \in DOMAIN o : o[i] = x}

\* __search_so: the path of a file called soname under the search
\* directories, or nothing
search_so(files, soname) ==
    IF files[soname].status = "searchable" THEN <<soname>> ELSE <<>>

\* __load_so: the loaded object, or <<>> for Python's None.  The object is
\* built only when soname itself exists; when the search finds a path the
\* method falls off its end and returns None as well.
load_so(files, soname) ==
    IF files[soname].status # "exists"
    THEN IF search_so(files, soname) = <<>> THEN <<>> ELSE <<>>
    ELSE <<Elf(files[soname].info)>>

\* __load_exe: copy the main object's map, nothing may be there already
load_exe(mem, main) ==
    IF DOMAIN main.memory \cap DOMAIN mem # {}
    THEN [memory |-> mem, error |-> "CLException"]
    ELSE [memory |-> [a \in DOMAIN mem \cup DOMAIN main.memory |->
                        IF a \in DOMAIN main.memory THEN main.memory[a]
                                                    ELSE mem[a]],
          error |-> "none"]

\* rebase_lib that forgets the base: the object's map is copied at its own
\* addresses
rebase_lib_nobase(mem, so, base) ==
    [a \in DOMAIN mem \cup DOMAIN so.memory |->
        IF a \in DOMAIN so.memory THEN so.memory[a] ELSE mem[a]]

\* rebase_lib: copy the object's map at base, whatever is there already
rebase_lib(mem, so, base) ==
    LET new == {addr + base : addr \in DOMAIN so.memory}
    IN [a \in DOMAIN mem \cup new |->
           IF a \in new THEN so.memory[a - base] ELSE mem[a]]

\* __load_shared_libs, the mapping iterated in the given order; rebase_lib
\* reads so.memory, which raises AttributeError when __load_so returned None
RECURSIVE load_shared_libs(_, _, _, _, _)
load_shared_libs(order, shared_libs, files, mem, sos) ==
    IF order = <<>>
    THEN [memory |-> mem, shared_objects |-> sos, error |-> "none"]
    ELSE LET name == Head(order)
             addr == shared_libs[name]
             so == load_so(files, name)
         IN IF so = <<>>
            THEN [memory |-> mem, shared_objects |-> sos,
                  error |-> "AttributeError"]
            ELSE load_shared_libs(Tail(order), shared_libs, files,
                                  rebase_lib(mem, so[1], addr),
                                  Append(sos, [so[1] EXCEPT
                                                 !.rebase_addr = addr]))

\* find_symbol_addr without the return inside the loop: the last shared
\* object exporting symbol decides
find_symbol_addr_last(symbol, sos) ==
    LET hits == {i \in 1..Len(sos) : symbol \in DOMAIN get_exports(sos[i])}
        last == CHOOSE i \in hits : \A j \in hits : j <= i
    IN IF hits = {}
       THEN [found |-> FALSE, addr |-> 0]
       ELSE [found |-> TRUE,
             addr |-> get_exports(sos[last])[symbol] + sos[last].rebase_addr]

\* find_symbol_addr: the first shared object exporting symbol decides;
\* found = FALSE stands for Python's None
find_symbol_addr(symbol, sos) ==
    LET hits == {i \in 1..Len(sos) : symbol \in DOMAIN get_exports(sos[i])}
    IN IF hits = {}
       THEN [found |-> FALSE, addr |-> 0]
       ELSE [found |-> TRUE,
             addr |-> get_exports(sos[Min(hits)])[symbol]
                      + sos[Min(hits)].rebase_addr]

\* the test `if (uaddr)`: None and 0 are both false
Truthy(uaddr) == uaddr.found /\ uaddr.addr # 0

\* __reloc: every entry whose symbol is found writes
\* memory[got_addr] = uaddr + obj.rebase_addr (the table's slots are
\* distinct, so the order of its entries does not matter)
reloc(mem, obj, sos) ==
    LET found == {symb \in DOMAIN obj.jmprel :
                    Truthy(find_symbol_addr(symb, sos))}
        slots == {obj.jmprel[symb] : symb \in found}
        symb_of(a) == CHOOSE symb \in found : obj.jmprel[symb] = a
    IN [a \in DOMAIN mem \cup slots |->
           IF a \in slots
           THEN find_symbol_addr(symb_of(a), sos).addr + obj.rebase_addr
           ELSE mem[a]]

\* __perform_reloc: the main binary, then the shared objects in list order
RECURSIVE reloc_each(_, _, _)
reloc_each(mem, objs, sos) ==
    IF objs = <<>> THEN mem
    ELSE reloc_each(reloc(mem, Head(objs), sos), Tail(objs), sos)

perform_reloc(mem, main, sos) == reloc_each(mem, <<main>> \o sos, sos)

\* Ld.__init__ as a whole, the resolver's mapping iterated in the given order
Compose(main, shared_libs, files, order) ==
    LET e == load_exe(EmptyMap, main)
        l == load_shared_libs(order, shared_libs, files, e.memory, <<>>)
    IN [memory |-> IF l.error = "none"
                   THEN perform_reloc(l.memory, main, l.shared_objects)
                   ELSE l.memory,
        shared_objects |-> l.shared_objects,
        error |-> l.error]

\* override_got_entry without the test of line 562: an absent name goes on
\* to the assignment of line 568 like a present one
override_got_entry_nocheck(name, newaddr, obj, mem) ==
    [result |-> "NameError", memory |-> mem]

\* override_got_entry: an absent name returns False; for a present name
\* line 568 assigns to `mem`, a name bound nowhere, so the call raises
\* NameError and the image is not written
override_got_entry(name, newaddr, obj, mem) ==
    IF ~(name \in DOMAIN obj.jmprel)
    THEN [result |-> "False", memory |-> mem]
    ELSE [result |-> "NameError", memory |-> mem]

\* min_addr / max_addr: the private helpers of Elf are read as the body
\* names them (the call through Ld's mangled name is not modelled)
RECURSIVE min_over(_, _)
min_over(base, sos) ==
    IF sos = <<>> THEN base
    ELSE IF Head(sos).rebase_addr > 0 /\ Head(sos).rebase_addr < base
         THEN min_over(Head(sos).rebase_addr, Tail(sos))
         ELSE min_over(base, Tail(sos))

min_addr(main, sos) == min_over(get_exec_base_addr(main), sos)

RECURSIVE max_over(_, _)
max_over(m1, sos) ==
    IF sos = <<>> THEN m1
    ELSE IF get_max_addr(Head(sos)) > m1
         THEN max_over(get_max_addr(Head(sos)), Tail(sos))
         ELSE max_over(m1, Tail(sos))

max_addr(main, sos) == max_over(get_max_addr(main), sos)

----------------------------------------------------------------------------
(* The state machine *)

NoCall == [name |-> "none", newaddr |-> 0, obj |-> "none", result |-> "none"]

Init ==
    \E m \in MainInfos,
       a \in LibConfigs("libA.so"),
       b \in LibConfigs("libB.so") \cup MissingConfigs("libB.so") :
        LET cfg == [n \in LibNames |-> IF n = "libA.so" THEN a ELSE b]
        IN /\ main_bin = Elf(m)
           /\ fs = [n \in LibNames |->
                      [status |-> cfg[n].status, info |-> cfg[n].info]]
           /\ libs = [n \in {x \in LibNames : cfg[x].listed} |-> cfg[n].base]
           /\ memory = EmptyMap
           /\ shared_objects = <<>>
           /\ pc = "load_exe"
           /\ error = "none"
           /\ ret = NoCall

\* Ld.__init__, line 470
LoadExe ==
    /\ pc = "load_exe"
    /\ LET r == load_exe(memory, main_bin)
       IN /\ memory' = r.memory
          /\ error' = r.error
          /\ pc' = IF r.error = "none" THEN "load_shared_libs" ELSE "failed"
    /\ UNCHANGED <<main_bin, fs, libs, shared_objects, ret>>

\* Ld.__init__, line 471
LoadSharedLibs ==
    /\ pc = "load_shared_libs"
    /\ \E order \in Orders(DOMAIN libs) :
         LET r == load_shared_libs(order, libs, fs, memory, shared_objects)
         IN /\ memory' = r.memory
            /\ shared_objects' = r.shared_objects
            /\ error' = r.error
            /\ pc' = IF r.error = "none" THEN "perform_reloc" ELSE "failed"
    /\ UNCHANGED <<main_bin, fs, libs, ret>>

\* Ld.__init__, line 472
PerformReloc ==
    /\ pc = "perform_reloc"
    /\ memory' = perform_reloc(memory, main_bin, shared_objects)
    /\ pc' = "done"
    /\ UNCHANGED <<main_bin, fs, libs, shared_objects, error, ret>>

\* the objects a caller can hand to override_got_entry
LoadedObjects == {main_bin} \cup {shared_objects[i] : i \in DOMAIN shared_objects}

OverrideGotEntry ==
    /\ pc = "done"
    /\ \E name \in Names, newaddr \in NewAddrs, obj \in LoadedObjects :
         LET r == override_got_entry(name, newaddr, obj, memory)
         IN /\ memory' = r.memory
            /\ ret' = [name |-> name, newaddr |-> newaddr,
                       obj |-> obj.binary, result |-> r.result]
    /\ UNCHANGED <<main_bin, fs, libs, shared_objects, pc, error>>

Next == LoadExe \/ LoadSharedLibs \/ PerformReloc \/ OverrideGotEntry

Spec == Init /\ [][Next]_vars

----------------------------------------------------------------------------
(* Properties of the composed image *)

ObjNamed(binary) == CHOOSE o \in LoadedObjects : o.binary = binary

\* the shared objects that export name
Exporters(name) ==
    {i \in DOMAIN shared_objects :
       name \in DOMAIN get_exports(shared_objects[i])}

\* the cells an object occupies in the composed image
Footprint(obj) == {a + obj.rebase_addr : a \in DOMAIN obj.memory}

\* the image as the two load stages left it, before relocation
ImageAfterLoad ==
    load_shared_libs([i \in DOMAIN shared_objects |-> shared_objects[i].binary],
                     libs, fs, load_exe(EmptyMap, main_bin).memory, <<>>).memory

\* C1: once Ld is constructed, every jump-relocation slot of every loaded
\* object, read at got_addr + rebase_addr, holds export_addr + rebase_addr of
\* a shared object exporting the name, unless no shared object exports it
C1_GotSlotsResolved ==
    pc = "done" =>
        \A obj \in LoadedObjects : \A name \in DOMAIN obj.jmprel :
            \/ Exporters(name) = {}
            \/ /\ obj.jmprel[name] + obj.rebase_addr \in DOMAIN memory
               /\ \E i \in Exporters(name) :
                    memory[obj.jmprel[name] + obj.rebase_addr]
                      = get_exports(shared_objects[i])[name]
                        + shared_objects[i].rebase_addr

\* C2: a shared object whose rebased cells are already populated makes the
\* composition fail, so in a composed image no cell belongs to the
\* footprints of two objects
C2_NoOverlapInImage ==
    pc \in {"perform_reloc", "done"} =>
        \A o1 \in LoadedObjects, o2 \in LoadedObjects :
            o1.binary # o2.binary => Footprint(o1) \cap Footprint(o2) = {}

\* C3: override_got_entry on a name of the object's jump-relocation table
\* succeeds, and the image read at jmprel[name] + rebase_addr is new_addr
C3_OverrideThenRead ==
    (ret.result # "none" /\ ret.name \in DOMAIN ObjNamed(ret.obj).jmprel) =>
        /\ ret.result = "True"
        /\ ObjNamed(ret.obj).jmprel[ret.name] + ObjNamed(ret.obj).rebase_addr
             \in DOMAIN memory
        /\ memory[ObjNamed(ret.obj).jmprel[ret.name]
                  + ObjNamed(ret.obj).rebase_addr] = ret.newaddr

\* C4: every address of the composed image lies between min_addr() and
\* max_addr()
C4_ImageWithinMinMax ==
    pc = "done" =>
        \A vaddr \in DOMAIN memory :
            /\ min_addr(main_bin, shared_objects) <= vaddr
            /\ vaddr <= max_addr(main_bin, shared_objects)

\* C5: the composed image and the object list are the same whatever order
\* the resolver's mapping is iterated in
C5_OrderIndependent ==
    pc = "done" =>
        \A order \in Orders(DOMAIN libs) :
            /\ Compose(main_bin, libs, fs, order).memory = memory
            /\ Compose(main_bin, libs, fs, order).shared_objects
                 = shared_objects

\* C6: in_which_segment(addr) names a segment exactly when addr is strictly
\* between vaddr and vaddr + memsz of the object's text or data segment
C6_SegmentIffStrictlyInside ==
    \A obj \in LoadedObjects : \A addr \in 0..MaxAddr :
        (in_which_segment(obj, addr) # "None")
          <=> \E h \in {get_text_phdr_ent(obj.phdr),
                        get_data_phdr_ent(obj.phdr)} :
                 h.vaddr < addr /\ addr < h.vaddr + h.memsz

\* C7: a jump-relocation slot whose name no shared object exports holds,
\* after relocation, the value the load stages left there
C7_UnresolvedSlotUntouched ==
    pc = "done" =>
        \A obj \in LoadedObjects : \A name \in DOMAIN obj.jmprel :
            Exporters(name) = {} =>
                /\ obj.jmprel[name] + obj.rebase_addr \in DOMAIN memory
                /\ memory[obj.jmprel[name] + obj.rebase_addr]
                     = ImageAfterLoad[obj.jmprel[name] + obj.rebase_addr]

\* C8: override_got_entry with a name that is not in the object's
\* jump-relocation table returns False and changes neither the image nor
\* any object
C8_AbsentNameNoEffect ==
    [][(pc = "done" /\ ret' # ret
          /\ ret'.name \notin DOMAIN ObjNamed(ret'.obj).jmprel)
        => /\ ret'.result = "False"
           /\ memory' = memory
           /\ main_bin' = main_bin
           /\ shared_objects' = shared_objects]_vars

C8_Witness ==
    /\ ret.result = "False"
    /\ ret.name \notin DOMAIN ObjNamed(ret.obj).jmprel
    /\ DOMAIN ObjNamed(ret.obj).jmprel # {}

\* C9: the imports are the symbols of type SHN_UNDEF, the exports are the
\* STB_GLOBAL symbols with a defined section, and no symbol is both
C9_ImportsExportsPartition ==
    \A obj \in LoadedObjects :
        /\ DOMAIN get_imports(obj)
             = {n \in DOMAIN obj.symbols : obj.symbols[n].type = "SHN_UNDEF"}
        /\ DOMAIN get_exports(obj)
             = {n \in DOMAIN obj.symbols :
                  /\ obj.symbols[n].binding = "STB_GLOBAL"
                  /\ obj.symbols[n].type # "SHN_UNDEF"}
        /\ DOMAIN get_imports(obj) \cap DOMAIN get_exports(obj) = {}

\* C10: a dependency of the mapping that can be found neither as a path nor
\* by the search does not make the composition fail; it is left out of the
\* loaded objects and the other stages complete
C10_MissingDependencyOmitted ==
    (\E n \in DOMAIN libs : fs[n].status = "absent") =>
        /\ pc # "failed"
        /\ pc = "done" =>
             {shared_objects[i].binary : i \in DOMAIN shared_objects}
               = {n \in DOMAIN libs : fs[n].status = "exists"}

ObjectList == <<main_bin>> \o shared_objects

\* the cells of the image that __reloc assigned: memory[got_addr] of every
\* entry whose symbol was found
RelocWritten ==
    UNION { { obj.jmprel[symb] :
                symb \in {x \in DOMAIN obj.jmprel :
                            Truthy(find_symbol_addr(x, shared_objects))} } :
            obj \in LoadedObjects }

====
